---- MODULE Spec2Model ----
(***************************************************************************)
(* Model of src/main.py: the ingestion endpoint, the status endpoint, the  *)
(* priority queue of jobs and the rate-limited scheduler loop              *)
(* (process_jobs).                                                         *)
(*                                                                         *)
(* Time is counted in tenths of a second, so that every delay of the code  *)
(* (5 s, 1 s, 0.1 s) is an integer.  The code runs on one asyncio event    *)
(* loop: the statements between two suspension points (the asyncio.sleep   *)
(* calls) run without interleaving, so each action below is one such run.  *)
(***************************************************************************)
EXTENDS Integers, Sequences, FiniteSets, TLC

\* ------------------------------------------------------------------ bounds
MaxJobs == 2          \* jobs accepted in Spec
MaxJobsApi == 2       \* jobs accepted in SpecApi
MaxJobsOrder == 4     \* jobs accepted in SpecOrder
MaxJobsLive == 2      \* jobs alive at a time in SpecLive
MaxAge == 70          \* SpecLive: ages beyond this are not told apart
MaxJobsTwo == 2       \* jobs accepted in SpecTwo
MaxTimeTwo == 120     \* the clock of SpecTwo stops here
MaxJobsDrain == 2     \* jobs accepted in SpecDrain
MaxJobsFaulty == 2    \* jobs accepted in SpecFaulty
MaxLen == 7           \* longest id list drawn in SpecBatches
StartTime == 50       \* time.time() when the application starts
MaxArrival == 70      \* no ingestion request arrives later
MaxTime == 120        \* the clock of Spec stops here
MaxTimeApi == 100     \* the clock of SpecApi stops here
MaxTimeOrder == 190   \* the clock of SpecOrder stops here
TickStep == 10        \* grain of the clock

\* ------------------------------------------------------- program constants
THROTTLE == 50        \* `< 5` and `5 - (...)`, in tenths of a second
API_DELAY == 10       \* asyncio.sleep(1) in process_batch
IDLE_SLEEP == 1       \* asyncio.sleep(0.1) when the queue is empty
BACKOFF == 10         \* asyncio.sleep(1) in the except branch
MIN_ID == 1
MAX_ID == 1000000007  \* 10**9 + 7
BATCH_SIZE == 3       \* range(0, len(ids), 3), ids[i:i+3]

Loops == {1}          \* lifespan creates one process_jobs task

YET_TO_START == "yet_to_start"
TRIGGERED == "triggered"
COMPLETED == "completed"
BatchStatus == {YET_TO_START, TRIGGERED, COMPLETED}

Priority == {"HIGH", "MEDIUM", "LOW"}

VARIABLES
    now,                  \* time.time()
    jobs,                 \* the IngestionJob objects, by ingestion_id
    store,                \* redis: key "ingestion:<id>" -> record
    job_queue,            \* the heap list of asyncio.PriorityQueue
    last_processed_time,
    processing_lock,      \* 0 when free, else the loop holding it
    waiters,              \* the loops waiting for the lock, first come first
    pc,                   \* per loop: where process_jobs is suspended
    wakeAt,               \* per loop: when the pending sleep is over
    cur,                  \* per loop: <<ingestion_id, batch index>> in flight
    response,             \* the last HTTP response, with the ids or the
                          \* identifier of its request
    dispatched,           \* history: the dispatches, with their times
    returned              \* history: the identifiers /ingest has returned

vars == <<now, jobs, store, job_queue, last_processed_time, processing_lock,
          waiters, pc, wakeAt, cur, response, dispatched, returned>>

\* ----------------------------------------------------------- pure helpers
Min(a, b) == IF a < b THEN a ELSE b

\* Priority.get_value
get_value(p) == IF p = "HIGH" THEN 0 ELSE IF p = "MEDIUM" THEN 1 ELSE 2

\* a wrong range test: 0 passes
ValidIdFromZero(id) == 0 <= id /\ id <= MAX_ID

\* the test of the loop in ingest_data
ValidId(id) == MIN_ID <= id /\ id <= MAX_ID

\* the id the for loop of ingest_data stops at (0 positions: none)
FirstInvalidPos(ids) ==
    IF \E i \in 1..Len(ids) : ~ValidId(ids[i])
    THEN CHOOSE i \in 1..Len(ids) :
            /\ ~ValidId(ids[i])
            /\ \A k \in 1..(i - 1) : ValidId(ids[k])
    ELSE 0

\* IngestionJob._create_batches: ids[i:i+3] for i in range(0, len(ids), 3)
RECURSIVE ChunksFrom(_, _, _)
ChunksFrom(jid, ids, i) ==
    IF i >= Len(ids)
    THEN << >>
    ELSE << [batch_id |-> <<jid, i \div BATCH_SIZE + 1>>,
             ids      |-> SubSeq(ids, i + 1, Min(i + BATCH_SIZE, Len(ids))),
             status   |-> YET_TO_START] >>
         \o ChunksFrom(jid, ids, i + BATCH_SIZE)

\* a wrong split: a last chunk of fewer than 3 ids is dropped
create_batches_full_only(jid, ids) ==
    ChunksFrom(jid, SubSeq(ids, 1, (Len(ids) \div BATCH_SIZE) * BATCH_SIZE), 0)

create_batches(jid, ids) == ChunksFrom(jid, ids, 0)

\* IngestionJob.get_overall_status
get_overall_status(batches) ==
    IF \A k \in 1..Len(batches) : batches[k].status = COMPLETED
    THEN COMPLETED
    ELSE IF \E k \in 1..Len(batches) : batches[k].status = TRIGGERED
         THEN TRIGGERED
         ELSE YET_TO_START

\* IngestionJob.to_dict (Batch.to_dict for each batch)
to_dict(job) ==
    [ingestion_id |-> job.ingestion_id,
     status       |-> get_overall_status(job.batches),
     batches      |-> job.batches]

\* IngestionJob.__init__
NewJob(jid, ids, priority, t) ==
    [ingestion_id |-> jid, ids |-> ids, priority |-> priority,
     created_time |-> t, batches |-> create_batches(jid, ids)]

\* a wrong __lt__: among equal priorities the later job first
LtNewestFirst(a, b) ==
    IF get_value(a.priority) # get_value(b.priority)
    THEN get_value(a.priority) < get_value(b.priority)
    ELSE a.created_time > b.created_time

\* IngestionJob.__lt__
Lt(a, b) ==
    IF get_value(a.priority) # get_value(b.priority)
    THEN get_value(a.priority) < get_value(b.priority)
    ELSE a.created_time < b.created_time

\* The queue holds tuples (priority value, job): Python compares the first
\* components, and the jobs (by __lt__) when these are equal.
\* A queue entry refers to its Job object: the reference is written as the
\* Job's identity and the attributes __lt__ reads, which never change.
JobRef(job) ==
    [ingestion_id |-> job.ingestion_id, priority |-> job.priority,
     created_time |-> job.created_time]

\* job_queue.put((job.priority.get_value(), job)): the tuple put
Entry(job) == [rank |-> get_value(job.priority), job |-> JobRef(job)]

EntryLt(x, y) ==
    IF x.rank # y.rank THEN x.rank < y.rank
    ELSE IF x.job.ingestion_id = y.job.ingestion_id THEN FALSE
    ELSE Lt(x.job, y.job)

\* ------------------------------------------- heapq, as PriorityQueue uses it
\* heapq._siftdown(heap, 0, pos), positions counted from 1
RECURSIVE SiftDown(_, _, _)
SiftDown(heap, pos, item) ==
    IF pos > 1 /\ EntryLt(item, heap[pos \div 2])
    THEN SiftDown([heap EXCEPT ![pos] = heap[pos \div 2]], pos \div 2, item)
    ELSE [heap EXCEPT ![pos] = item]

\* heapq.heappush
heappush(heap, item) == SiftDown(Append(heap, item), Len(heap) + 1, item)

\* the while loop of heapq._siftup: moves the smaller child up until a leaf
RECURSIVE SiftUpHole(_, _)
SiftUpHole(heap, pos) ==
    LET child == 2 * pos
        right == child + 1
        c == IF right <= Len(heap) /\ ~EntryLt(heap[child], heap[right])
             THEN right ELSE child
    IN IF child <= Len(heap)
       THEN SiftUpHole([heap EXCEPT ![pos] = heap[c]], c)
       ELSE <<heap, pos>>

\* heapq._siftup(heap, 0)
SiftUp(heap, item) ==
    LET r == SiftUpHole(heap, 1)
    IN SiftDown(r[1], r[2], item)

\* heapq.heappop: the returned item
HeapTop(heap) == heap[1]

\* heapq.heappop: the heap that is left
heappop(heap) ==
    LET last == heap[Len(heap)]
        rest == SubSeq(heap, 1, Len(heap) - 1)
    IN IF rest = << >> THEN rest ELSE SiftUp(rest, last)

\* --------------------------------------------------------- the status store
\* a wrong update: nothing is written
update_redis_status_skipped(st, batch_id, status) == st

\* update_redis_status: the record holding the batch is read, the status of
\* that batch is set and the whole record is written back.
update_redis_status(st, batch_id, status) ==
    IF \E key \in DOMAIN st : \E k \in 1..Len(st[key].batches) :
            st[key].batches[k].batch_id = batch_id
    THEN LET key == CHOOSE key \in DOMAIN st : \E k \in 1..Len(st[key].batches) :
                        st[key].batches[k].batch_id = batch_id
             k == CHOOSE k \in 1..Len(st[key].batches) :
                        st[key].batches[k].batch_id = batch_id
         IN [st EXCEPT ![key].batches[k].status = status]
    ELSE st

\* a wrong assignment: every Batch of the Job gets the status
SetBatchStatusAll(js, jid, k, status) ==
    [js EXCEPT ![jid].batches =
        [i \in 1..Len(js[jid].batches) |->
            [js[jid].batches[i] EXCEPT !.status = status]]]

\* batch.status = status, on the Job object
SetBatchStatus(js, jid, k, status) ==
    [js EXCEPT ![jid].batches[k].status = status]

NoResponse == [op |-> "none"]

\* str(uuid.uuid4()): an identifier no Job, record or response holds; the
\* identifiers are numbered, and the smallest free number is taken
UsedIds == DOMAIN jobs \cup DOMAIN store \cup returned

FreshId ==
    CHOOSE i \in 1..(Cardinality(UsedIds) + 1) :
        /\ i \notin UsedIds
        /\ \A k \in 1..(i - 1) : k \in UsedIds

Init ==
    /\ now = StartTime
    /\ jobs = << >>
    /\ store = << >>
    /\ job_queue = << >>
    /\ last_processed_time = 0
    /\ processing_lock = 0
    /\ waiters = << >>
    /\ pc = [l \in Loops |-> "start"]
    /\ wakeAt = [l \in Loops |-> 0]
    /\ cur = [l \in Loops |-> <<0, 0>>]
    /\ response = NoResponse
    /\ dispatched = << >>
    /\ returned = {}

\* ------------------------------------------------------------ the clock
Tick ==
    /\ now' = now + TickStep
    /\ UNCHANGED <<jobs, store, job_queue, last_processed_time,
                   processing_lock, waiters, pc, wakeAt, cur, response,
                   dispatched, returned>>

\* ------------------------------------------------------------ POST /ingest
\* a wrong ingestion: the Job is enqueued although the write has failed
ingest_data_enqueue_unpersisted(ids, priority, ok) ==
    LET bad == FirstInvalidPos(ids)
        jid == FreshId
        job == NewJob(jid, ids, priority, now)
    IN IF bad # 0
       THEN /\ response' = [op |-> "ingest", ids |-> ids, code |-> 400,
                             detail |-> ids[bad]]
            /\ UNCHANGED <<jobs, store, job_queue, returned>>
       ELSE /\ store' = IF ok THEN (jid :> to_dict(job)) @@ store ELSE store
            /\ jobs' = (jid :> job) @@ jobs
            /\ job_queue' = heappush(job_queue, Entry(job))
            /\ response' = [op |-> "ingest", ids |-> ids, code |-> 200,
                             ingestion_id |-> jid]
            /\ returned' = returned \cup {jid}

\* ok: whether redis_client.set succeeds (it raises when the store is down)
ingest_data(ids, priority, ok) ==
    LET bad == FirstInvalidPos(ids)
        jid == FreshId                            \* str(uuid.uuid4())
        job == NewJob(jid, ids, priority, now)
    IN IF bad # 0
       THEN /\ response' = [op |-> "ingest", ids |-> ids, code |-> 400,
                             detail |-> ids[bad]]
            /\ UNCHANGED <<jobs, store, job_queue, returned>>
       ELSE IF ~ok
       THEN /\ response' = [op |-> "ingest", ids |-> ids, code |-> 500]
            /\ UNCHANGED <<jobs, store, job_queue, returned>>
       ELSE /\ store' = (jid :> to_dict(job)) @@ store
            /\ jobs' = (jid :> job) @@ jobs
            /\ job_queue' = heappush(job_queue, Entry(job))
            /\ response' = [op |-> "ingest", ids |-> ids, code |-> 200,
                             ingestion_id |-> jid]
            /\ returned' = returned \cup {jid}

Ingest(ids, priority, ok) ==
    /\ UNCHANGED <<now, last_processed_time, processing_lock, waiters, pc,
                   wakeAt, cur, dispatched>>
    /\ ingest_data(ids, priority, ok)

\* --------------------------------------------------- GET /status/{id}
\* a wrong query: a missing record is answered with 200 and an empty body
get_status_no_404(ingestion_id) ==
    IF ingestion_id \notin DOMAIN store
    THEN [op |-> "status", id |-> ingestion_id, code |-> 200, body |-> << >>]
    ELSE [op |-> "status", id |-> ingestion_id, code |-> 200,
          body |-> store[ingestion_id]]

\* json.loads(json.dumps(record)) gives the record back: it holds only
\* strings, integers and lists, and a BatchStatus is dumped as its value.
get_status(ingestion_id) ==
    IF ingestion_id \notin DOMAIN store
    THEN [op |-> "status", id |-> ingestion_id, code |-> 404]
    ELSE [op |-> "status", id |-> ingestion_id, code |-> 200,
          body |-> store[ingestion_id]]

GetStatus(ingestion_id) ==
    /\ response' = get_status(ingestion_id)
    /\ UNCHANGED <<now, jobs, store, job_queue, last_processed_time,
                   processing_lock, waiters, pc, wakeAt, cur, dispatched,
                   returned>>

\* ------------------------------------------------------------ process_jobs
\* What a run of process_jobs between two suspension points reads and
\* writes: the Job objects, the store, the queue, last_processed_time, the
\* waiters of the lock (and the history).
Here ==
    [jobs |-> jobs, store |-> store, job_queue |-> job_queue,
     last_processed_time |-> last_processed_time, dispatched |-> dispatched,
     waiters |-> waiters]

\* history: the dispatch in progress ends now
Ended(log, how) ==
    [log EXCEPT ![Len(log)].how = how, ![Len(log)].end = now]

\* history: a job is popped now
Popped(log, jid) ==
    Append(log, [job |-> jid, start |-> now, how |-> "running", end |-> 0])

\* The run reaches an `await asyncio.sleep(delay)` with the state s.
Suspend(l, s, at, delay, lock, c) ==
    /\ jobs' = s.jobs
    /\ store' = s.store
    /\ job_queue' = s.job_queue
    /\ last_processed_time' = s.last_processed_time
    /\ dispatched' = s.dispatched
    /\ waiters' = s.waiters
    /\ pc' = [pc EXCEPT ![l] = at]
    /\ wakeAt' = [wakeAt EXCEPT ![l] = now + delay]
    /\ processing_lock' = lock
    /\ cur' = [cur EXCEPT ![l] = c]

\* a wrong handler: the Job whose processing failed is put back in the queue
FailedRequeue(l, s) ==
    LET job == s.jobs[s.dispatched[Len(s.dispatched)].job]
    IN Suspend(l, [s EXCEPT !.dispatched = Ended(s.dispatched, "error"),
                            !.job_queue = heappush(s.job_queue, Entry(job))],
               "backoff", BACKOFF, 0, <<0, 0>>)

\* a wrong handler: the Batches of the Job whose processing failed are set
\* back to yet_to_start
FailedReset(l, s) ==
    LET jid == s.dispatched[Len(s.dispatched)].job
        js == [s.jobs EXCEPT ![jid].batches =
                  [i \in 1..Len(s.jobs[jid].batches) |->
                      [s.jobs[jid].batches[i] EXCEPT !.status = YET_TO_START]]]
    IN Suspend(l, [s EXCEPT !.dispatched = Ended(s.dispatched, "error"),
                            !.jobs = js],
               "backoff", BACKOFF, 0, <<0, 0>>)

\* a wrong handler: the failed dispatch is stamped as the last dispatch
FailedStamps(l, s) ==
    Suspend(l, [s EXCEPT !.dispatched = Ended(s.dispatched, "error"),
                         !.last_processed_time = now],
            "backoff", BACKOFF, 0, <<0, 0>>)

\* a wrong handler: the error ends the loop
FailedFatal(l, s) ==
    Suspend(l, [s EXCEPT !.dispatched = Ended(s.dispatched, "error")],
            "done", 0, 0, <<0, 0>>)

\* `except Exception`: the lock is released by `async with`, then sleep(1)
Failed(l, s) ==
    Suspend(l, [s EXCEPT !.dispatched = Ended(s.dispatched, "error")],
            "backoff", BACKOFF, 0, <<0, 0>>)

\* the throttle check at the top of an iteration, when it makes the loop wait
Throttled(s) == now - s.last_processed_time < THROTTLE

ThrottleSleep(l, s) ==
    Suspend(l, s, "throttle", THROTTLE - (now - s.last_processed_time), l,
            <<0, 0>>)

\* `async with processing_lock` finds the lock taken, or others waiting for
\* it: asyncio.Lock.acquire appends the caller to the waiters and suspends
\* (lock: who holds it at that moment, 0 when the caller has just released it
\* and the first waiter has been woken)
Enqueue(l, s, lock) ==
    Suspend(l, [s EXCEPT !.waiters = Append(s.waiters, l)], "lock", 0, lock,
            <<0, 0>>)

\* a wrong end of a dispatch: last_processed_time is not set
FinishedNoStamp(l, s) ==
    LET s2 == [s EXCEPT !.dispatched = Ended(s.dispatched, "ok")]
    IN IF s2.waiters # << >>
       THEN Enqueue(l, s2, 0)
       ELSE IF Throttled(s2)
       THEN ThrottleSleep(l, s2)
       ELSE Suspend(l, s2, "start", 0, 0, <<0, 0>>)

\* last_processed_time = time.time(); the lock is released and the next
\* iteration takes it again at once, unless another loop waits for it.
\* There current_time - last_processed_time is 0, so the loop sleeps in the
\* throttle check.
Finished(l, s) ==
    LET s2 == [s EXCEPT !.last_processed_time = now,
                        !.dispatched = Ended(s.dispatched, "ok")]
    IN IF s2.waiters # << >>
       THEN Enqueue(l, s2, 0)
       ELSE IF Throttled(s2)
       THEN ThrottleSleep(l, s2)
       ELSE Suspend(l, s2, "start", 0, 0, <<0, 0>>)

\* a wrong trigger: the Batch is marked COMPLETED before its work unit
TriggerAsCompleted(l, s, jid, k, ok) ==
    LET js == SetBatchStatus(s.jobs, jid, k, COMPLETED)
        batch == js[jid].batches[k]
        st == update_redis_status(s.store, batch.batch_id, batch.status)
    IN IF ok
       THEN Suspend(l, [s EXCEPT !.jobs = js, !.store = st],
                    "work", API_DELAY, l, <<jid, k>>)
       ELSE Failed(l, [s EXCEPT !.jobs = js])

\* batch.status = TRIGGERED; await update_redis_status(batch); then the
\* sleep of process_batch
Trigger(l, s, jid, k, ok) ==
    LET js == SetBatchStatus(s.jobs, jid, k, TRIGGERED)
        batch == js[jid].batches[k]
        st == update_redis_status(s.store, batch.batch_id, batch.status)
    IN IF ok
       THEN Suspend(l, [s EXCEPT !.jobs = js, !.store = st],
                    "work", API_DELAY, l, <<jid, k>>)
       ELSE Failed(l, [s EXCEPT !.jobs = js])

\* a wrong dispatch: the queue is taken for empty
DispatchNothing(l, s, ok) == Suspend(l, s, "idle", IDLE_SLEEP, l, <<0, 0>>)

\* `if not job_queue.empty()` and what follows, up to the next sleep
Dispatch(l, s, ok) ==
    IF s.job_queue = << >>
    THEN Suspend(l, s, "idle", IDLE_SLEEP, l, <<0, 0>>)
    ELSE LET jid == HeapTop(s.job_queue).job.ingestion_id
             s2 == [s EXCEPT !.job_queue = heappop(s.job_queue),
                             !.dispatched = Popped(s.dispatched, jid)]
         IN IF s.jobs[jid].batches = << >>
            THEN Finished(l, s2)
            ELSE Trigger(l, s2, jid, 1, ok)

\* the top of an iteration: the lock, the throttle check
Iteration(l, s, ok) ==
    IF Throttled(s) THEN ThrottleSleep(l, s) ELSE Dispatch(l, s, ok)

\* a wrong lock: it is taken whoever holds it
AcquireAlways(l, s, lock, ok) == Iteration(l, s, ok)

\* `async with processing_lock` at the top of an iteration: the lock is
\* taken when it is free and nobody waits for it (lock: who holds it now)
Acquire(l, s, lock, ok) ==
    IF lock = 0 /\ s.waiters = << >>
    THEN Iteration(l, s, ok)
    ELSE Enqueue(l, s, lock)

\* the task starts running
Start(l, ok) ==
    /\ pc[l] = "start"
    /\ Acquire(l, Here, processing_lock, ok)
    /\ UNCHANGED <<now, response, returned>>

\* the lock was released and this loop is the first waiter: it takes the lock
LockWake(l, ok) ==
    /\ pc[l] = "lock"
    /\ processing_lock = 0
    /\ Head(waiters) = l
    /\ Iteration(l, [Here EXCEPT !.waiters = Tail(waiters)], ok)
    /\ UNCHANGED <<now, response, returned>>

\* a wrong loop: the dispatch does not wait for the throttle sleep to end
ThrottleWakeEarly(l, ok) ==
    /\ pc[l] = "throttle"
    /\ Dispatch(l, Here, ok)
    /\ UNCHANGED <<now, response, returned>>

\* the throttle sleep is over
ThrottleWake(l, ok) ==
    /\ pc[l] = "throttle"
    /\ now >= wakeAt[l]
    /\ Dispatch(l, Here, ok)
    /\ UNCHANGED <<now, response, returned>>

\* sleep(0.1) is over: the lock is released and the next iteration starts
IdleWake(l, ok) ==
    /\ pc[l] = "idle"
    /\ now >= wakeAt[l]
    /\ Acquire(l, Here, 0, ok)
    /\ UNCHANGED <<now, response, returned>>

\* the sleep(1) of the except branch is over
BackoffWake(l, ok) ==
    /\ pc[l] = "backoff"
    /\ now >= wakeAt[l]
    /\ Acquire(l, Here, processing_lock, ok)
    /\ UNCHANGED <<now, response, returned>>

\* the sleep of process_batch is over: the batch is COMPLETED and persisted
\* (okDone), then the next batch is triggered (okNext) or the job is finished
WorkDone(l, okDone, okNext) ==
    /\ pc[l] = "work"
    /\ now >= wakeAt[l]
    /\ LET jid == cur[l][1]
           k == cur[l][2]
           js == SetBatchStatus(jobs, jid, k, COMPLETED)
           batch == js[jid].batches[k]
           st == update_redis_status(store, batch.batch_id, batch.status)
       IN IF ~okDone
          THEN Failed(l, [Here EXCEPT !.jobs = js])
          ELSE IF k < Len(jobs[jid].batches)
          THEN Trigger(l, [Here EXCEPT !.jobs = js, !.store = st],
                       jid, k + 1, okNext)
          ELSE Finished(l, [Here EXCEPT !.jobs = js, !.store = st])
    /\ UNCHANGED <<now, response, returned>>

\* a wrong cancellation: the lock stays taken
CancelKeepsLock(l) ==
    /\ pc[l] # "done"
    /\ pc' = [pc EXCEPT ![l] = "done"]
    /\ waiters' = SelectSeq(waiters, LAMBDA m : m # l)
    /\ wakeAt' = [wakeAt EXCEPT ![l] = 0]
    /\ cur' = [cur EXCEPT ![l] = <<0, 0>>]
    /\ dispatched' = IF pc[l] = "work" THEN Ended(dispatched, "cancelled")
                     ELSE dispatched
    /\ UNCHANGED <<now, jobs, store, job_queue, last_processed_time,
                   processing_lock, response, returned>>

\* lifespan, at shutdown: background_task.cancel().  CancelledError is raised
\* at the await the task is suspended in: inside `async with` the lock is
\* released on the way out and `except asyncio.CancelledError: break` ends
\* the loop; in the sleep of the except branch and in the wait for the lock
\* the task ends as well (a waiter leaves the waiters).
Cancel(l) ==
    /\ pc[l] # "done"
    /\ pc' = [pc EXCEPT ![l] = "done"]
    /\ processing_lock' = IF processing_lock = l THEN 0 ELSE processing_lock
    /\ waiters' = SelectSeq(waiters, LAMBDA m : m # l)
    /\ wakeAt' = [wakeAt EXCEPT ![l] = 0]
    /\ cur' = [cur EXCEPT ![l] = <<0, 0>>]
    /\ dispatched' = IF pc[l] = "work" THEN Ended(dispatched, "cancelled")
                     ELSE dispatched
    /\ UNCHANGED <<now, jobs, store, job_queue, last_processed_time,
                   response, returned>>

\* ------------------------------------------------------- specifications
\* The scheduler: requests with an empty, a two-batch and an invalid id
\* list; every store write of the ingestion and of the loop may fail.
IdLists == { << >>, <<1, 2, 3, MAX_ID>>, <<0, 1, 2>> }

LoopStep(oks) ==
    \E l \in Loops : \E ok \in oks, ok2 \in oks :
        \/ Start(l, ok)
        \/ ThrottleWake(l, ok)
        \/ IdleWake(l, ok)
        \/ BackoffWake(l, ok)
        \/ WorkDone(l, ok, ok2)

Next ==
    \/ (now + TickStep <= MaxTime /\ Tick)
    \/ \E ids \in IdLists, p \in Priority, ok \in BOOLEAN :
            /\ Cardinality(DOMAIN jobs) < MaxJobs
            /\ now <= MaxArrival
            /\ Ingest(ids, p, ok)
    \/ LoopStep(BOOLEAN)

Spec == Init /\ [][Next]_vars

\* The two endpoints: id lists with an invalid id in each position, status
\* queries for known and unknown identifiers, and the loop beside them (no
\* write of the loop fails here).  Only accepted Jobs count for MaxJobsApi.
ApiIdLists ==
    { << >>, <<1, 2, 3, MAX_ID>>,
      <<0, 1, 2>>, <<1, MAX_ID + 1, 0>>, <<MAX_ID, 1, -3>> }

StatusIds == 1..(MaxJobsApi + 1)

NextApi ==
    \/ (now + TickStep <= MaxTimeApi /\ Tick)
    \/ \E ids \in ApiIdLists, p \in Priority, ok \in BOOLEAN :
            /\ Cardinality(DOMAIN jobs) < MaxJobsApi \/ FirstInvalidPos(ids) # 0 \/ ~ok
            /\ now <= MaxArrival
            /\ Ingest(ids, p, ok)
    \/ \E id \in StatusIds : GetStatus(id)
    \/ \E l \in Loops :
            \/ Start(l, TRUE)
            \/ ThrottleWake(l, TRUE)
            \/ IdleWake(l, TRUE)
            \/ WorkDone(l, TRUE, TRUE)

SpecApi == Init /\ [][NextApi]_vars

\* The order of dispatch: one-batch jobs of every priority, no failing write.
NextOrder ==
    \/ (now + TickStep <= MaxTimeOrder /\ Tick)
    \/ \E p \in Priority :
            /\ Cardinality(DOMAIN jobs) < MaxJobsOrder
            /\ now <= MaxArrival
            /\ Ingest(<<1>>, p, TRUE)
    \/ \E l \in Loops :
            \/ Start(l, TRUE)
            \/ ThrottleWake(l, TRUE)
            \/ IdleWake(l, TRUE)
            \/ WorkDone(l, TRUE, TRUE)

SpecOrder == Init /\ [][NextOrder]_vars

\* Job construction alone: one request with any id list up to MaxLen.
BatchIdLists == UNION { [1..n -> {1, 2}] : n \in 0..MaxLen }

NextBatches ==
    \E ids \in BatchIdLists, p \in Priority :
        jobs = << >> /\ Ingest(ids, p, TRUE)

SpecBatches == Init /\ [][NextBatches]_vars

\* Endless ingestion: requests never stop arriving and the clock never
\* stops, with at most MaxJobsLive Jobs alive at a time and no failing write.
\* The state stays finite because
\*  - the clock is read in a frame that moves with it: the code uses
\*    time.time() only in differences (the throttle check) and comparisons
\*    (__lt__), so a step of the clock is the same as moving every recorded
\*    time back by the step, `now` staying where it is.  A recorded time
\*    that is MaxAge old is not moved further: MaxAge is more than the
\*    throttle interval and every sleep, so the throttle check and the end
\*    of a sleep read it the same way.  (Two queued Jobs of equal priority
\*    that are both that old compare equal.);
\*  - a finished Job is dropped from the state, with its record and its
\*    history: process_jobs and ingest_data never read them again
\*    (update_redis_status looks for the batch in flight), and there is no
\*    status query here.  Its number is free for a new identifier.
Shift(t) == IF t - TickStep > now - MaxAge THEN t - TickStep ELSE now - MaxAge

ShiftJob(job) == [job EXCEPT !.created_time = Shift(job.created_time)]

TickLive ==
    /\ jobs' = [jid \in DOMAIN jobs |-> ShiftJob(jobs[jid])]
    /\ job_queue' = [i \in 1..Len(job_queue) |->
                        [job_queue[i] EXCEPT !.job = ShiftJob(job_queue[i].job)]]
    /\ last_processed_time' = Shift(last_processed_time)
    /\ wakeAt' = [l \in Loops |-> Shift(wakeAt[l])]
    /\ dispatched' = [i \in 1..Len(dispatched) |->
                        [dispatched[i] EXCEPT
                            !.start = Shift(dispatched[i].start),
                            !.end = IF dispatched[i].how = "running" THEN 0
                                    ELSE Shift(dispatched[i].end)]]
    /\ UNCHANGED <<now, store, processing_lock, waiters, pc, cur, response,
                   returned>>

Without(f, x) == [y \in DOMAIN f \ {x} |-> f[y]]

Forget(jid) ==
    /\ jid \in DOMAIN jobs
    /\ \A i \in 1..Len(job_queue) : job_queue[i].job.ingestion_id # jid
    /\ \A l \in Loops : cur[l][1] # jid
    /\ jobs' = Without(jobs, jid)
    /\ store' = Without(store, jid)
    /\ dispatched' = SelectSeq(dispatched, LAMBDA d : d.job # jid)
    /\ returned' = returned \ {jid}
    /\ UNCHANGED <<now, job_queue, last_processed_time, processing_lock,
                   waiters, pc, wakeAt, cur, response>>

LoopLive ==
    \E l \in Loops :
        \/ Start(l, TRUE)
        \/ ThrottleWake(l, TRUE)
        \/ IdleWake(l, TRUE)
        \/ WorkDone(l, TRUE, TRUE)

LivePriorities == {"HIGH", "LOW"}

NextLive ==
    \/ TickLive
    \/ \E p \in LivePriorities :
            /\ Cardinality(DOMAIN jobs) < MaxJobsLive
            /\ Ingest(<<1>>, p, TRUE)
    \/ \E jid \in DOMAIN jobs : Forget(jid)
    \/ LoopLive

\* The event loop runs a task whose sleep is over, and time passes; nothing
\* is assumed about the requests.
SpecLive ==
    Init /\ [][NextLive]_vars /\ WF_vars(TickLive) /\ WF_vars(LoopLive)

\* process_jobs invoked twice: two tasks run the loop on the same queue, lock
\* and last_processed_time.  Two-batch Jobs of the highest and the lowest
\* priority; every store write of the loops may fail.
TwoLoops == {1, 2}

TwoPriorities == {"HIGH", "LOW"}

InitTwo ==
    /\ now = StartTime
    /\ jobs = << >>
    /\ store = << >>
    /\ job_queue = << >>
    /\ last_processed_time = 0
    /\ processing_lock = 0
    /\ waiters = << >>
    /\ pc = [l \in TwoLoops |-> "start"]
    /\ wakeAt = [l \in TwoLoops |-> 0]
    /\ cur = [l \in TwoLoops |-> <<0, 0>>]
    /\ response = NoResponse
    /\ dispatched = << >>
    /\ returned = {}

TwoIdLists == { <<1, 2, 3, MAX_ID>> }

NextTwo ==
    \/ (now + TickStep <= MaxTimeTwo /\ Tick)
    \/ \E ids \in TwoIdLists, p \in TwoPriorities :
            /\ Cardinality(DOMAIN jobs) < MaxJobsTwo
            /\ now <= MaxArrival
            /\ Ingest(ids, p, TRUE)
    \/ \E l \in TwoLoops : \E ok \in BOOLEAN, ok2 \in BOOLEAN :
            \/ Start(l, ok)
            \/ LockWake(l, ok)
            \/ ThrottleWake(l, ok)
            \/ IdleWake(l, ok)
            \/ BackoffWake(l, ok)
            \/ WorkDone(l, ok, ok2)

SpecTwo == InitTwo /\ [][NextTwo]_vars

\* The scheduler of Spec with the shutdown: the task may be cancelled at any
\* moment; requests may still arrive afterwards.
NextCancel ==
    \/ Next
    \/ \E l \in Loops : Cancel(l)

SpecCancel == Init /\ [][NextCancel]_vars

\* Finitely many requests, a clock that never stops (read in the moving frame
\* of SpecLive) and a loop that is scheduled fairly; no write fails.
DrainIdLists == { << >>, <<1, 2, 3, MAX_ID>> }

NextDrain ==
    \/ TickLive
    \/ \E ids \in DrainIdLists, p \in LivePriorities :
            /\ Cardinality(DOMAIN jobs) < MaxJobsDrain
            /\ Ingest(ids, p, TRUE)
    \/ LoopLive

SpecDrain ==
    Init /\ [][NextDrain]_vars /\ WF_vars(TickLive) /\ WF_vars(LoopLive)

\* The same with two-batch Jobs and store writes of the loop that may fail,
\* each time anew: the loop is scheduled fairly, whatever the outcome of its
\* writes.
FaultyIdLists == { <<1, 2, 3, MAX_ID>> }

NextFaulty ==
    \/ TickLive
    \/ \E ids \in FaultyIdLists, p \in LivePriorities :
            /\ Cardinality(DOMAIN jobs) < MaxJobsFaulty
            /\ Ingest(ids, p, TRUE)
    \/ LoopStep(BOOLEAN)

SpecFaulty ==
    Init /\ [][NextFaulty]_vars /\ WF_vars(TickLive)
         /\ WF_vars(LoopStep(BOOLEAN))

\* The scheduler of Spec with status queries beside it.
NextFrame ==
    \/ Next
    \/ \E id \in StatusIds : GetStatus(id)

SpecFrame == Init /\ [][NextFrame]_vars

\* ------------------------------------------------------------------ claims
\* the rank the specification gives each priority: HIGH < MEDIUM < LOW
RankOf(p) == CASE p = "HIGH" -> 0 [] p = "MEDIUM" -> 1 [] p = "LOW" -> 2

\* (rank, creation timestamp) of x is not greater than that of y
KeyLeq(x, y) ==
    \/ RankOf(x.priority) < RankOf(y.priority)
    \/ /\ RankOf(x.priority) = RankOf(y.priority)
       /\ x.created_time <= y.created_time

QueuedIds(q) == { q[i].job.ingestion_id : i \in 1..Len(q) }

\* C1: whenever process_jobs pops a Job, it is the Job it dispatches and its
\* (priority rank, creation timestamp) pair is the smallest among all Jobs
\* that were in the queue at that moment, HIGH < MEDIUM < LOW, the earlier
\* timestamp winning a tie.
C1_PopsSmallest ==
    [][ Len(job_queue') < Len(job_queue) =>
          \E jid \in QueuedIds(job_queue) :
             /\ QueuedIds(job_queue') = QueuedIds(job_queue) \ {jid}
             /\ dispatched' # << >>
             /\ dispatched'[Len(dispatched')].job = jid
             /\ Len(dispatched') = Len(dispatched) + 1
             /\ \A other \in QueuedIds(job_queue) : KeyLeq(jobs[jid], jobs[other])
      ]_vars

\* C1 witness: LOW, HIGH and MEDIUM Jobs arrived in this order at different
\* times, all before the first dispatch, and were dispatched HIGH, MEDIUM, LOW.
C1_Witness ==
    /\ DOMAIN jobs = 1..3
    /\ jobs[1].priority = "LOW" /\ jobs[2].priority = "HIGH"
    /\ jobs[3].priority = "MEDIUM"
    /\ jobs[1].created_time < jobs[2].created_time
    /\ jobs[2].created_time < jobs[3].created_time
    /\ Len(dispatched) = 3
    /\ jobs[3].created_time <= dispatched[1].start
    /\ dispatched[1].job = 2 /\ dispatched[2].job = 3 /\ dispatched[3].job = 1

\* a Job is popped in this step
PopStep == Len(dispatched') = Len(dispatched) + 1

\* the dispatches before the pop that ended without an error
OkEnds(log) == { log[i].end : i \in { k \in 1..Len(log) : log[k].how = "ok" } }

\* C2 (as claimed): a Job is popped at least 5 time units after the
\* processing of the Job dispatched before it ended, however that ended.
C2_FloorAfterEveryEnd ==
    [][ (PopStep /\ dispatched # << >>) =>
            now - dispatched[Len(dispatched)].end >= 50 ]_vars

\* C2 (amended): a Job is popped at least 5 time units after the end of
\* every earlier dispatch that completed all its Batches, and at least 1
\* time unit (the backoff) after the end of a dispatch that failed.
C2_FloorAfterCompletedEnd ==
    [][ (PopStep /\ dispatched # << >>) =>
            /\ \A e \in OkEnds(dispatched) : now - e >= 50
            /\ dispatched[Len(dispatched)].how = "error" =>
                  now - dispatched[Len(dispatched)].end >= 10 ]_vars

\* C2 witness: a second Job has been popped, 5 time units or more after the
\* first one completed its Batches.
C2_Witness ==
    /\ Len(dispatched) >= 2
    /\ dispatched[1].how = "ok"
    /\ Len(jobs[dispatched[1].job].batches) > 0
    /\ dispatched[2].start >= dispatched[1].end + 50

\* what a status query for the Job reads for its k-th Batch now
ReadStatus(jid, k) ==
    IF get_status(jid).code = 200 /\ k \in 1..Len(get_status(jid).body.batches)
    THEN get_status(jid).body.batches[k].status
    ELSE "none"

BatchesOf(jid) == 1..Len(jobs[jid].batches)

\* the dispatch of the Job failed
DispatchFailed(jid) ==
    \E i \in 1..Len(dispatched) :
        dispatched[i].job = jid /\ dispatched[i].how = "error"

\* C3 (as claimed): whenever a Batch is marked TRIGGERED and not yet
\* COMPLETED, a status query reads `triggered` for it.
C3_TriggeredIsRead ==
    \A jid \in DOMAIN jobs : \A k \in BatchesOf(jid) :
        jobs[jid].batches[k].status = TRIGGERED => ReadStatus(jid, k) = TRIGGERED

\* the steps a persisted Batch status may take
StatusStepOk(old, new) ==
    \/ new = old
    \/ old = "yet_to_start" /\ new = "triggered"
    \/ old = "triggered" /\ new = "completed"

\* while the work unit of a Batch is in progress, the Batch is TRIGGERED and a
\* status query reads `triggered` for it
WorkIsReadTriggered ==
    \A l \in Loops : pc[l] = "work" =>
        /\ jobs[cur[l][1]].batches[cur[l][2]].status = TRIGGERED
        /\ ReadStatus(cur[l][1], cur[l][2]) = "triggered"

\* a Batch marked TRIGGERED is read as `triggered`, or the dispatch of its
\* Job has failed and it is read as `yet_to_start`
TriggeredIsReadOrFailed ==
    \A jid \in DOMAIN jobs : \A k \in BatchesOf(jid) :
        jobs[jid].batches[k].status = TRIGGERED =>
            \/ ReadStatus(jid, k) = "triggered"
            \/ DispatchFailed(jid) /\ ReadStatus(jid, k) = "yet_to_start"

\* C3 (amended): while the work unit of a Batch is in progress a status query
\* reads `triggered` for it; a Batch marked TRIGGERED is read as `triggered`
\* unless the store write of that transition failed, and then the dispatch of
\* its Job has failed and the query reads `yet_to_start`; what successive
\* queries read for a Batch goes from `yet_to_start` to `triggered` to
\* `completed`, never skipping `triggered` and never going back.
C3_TriggeredIsReadUnlessWriteFailed ==
    [][ /\ WorkIsReadTriggered'
        /\ TriggeredIsReadOrFailed'
        /\ \A jid \in DOMAIN jobs : \A k \in BatchesOf(jid) :
              StatusStepOk(ReadStatus(jid, k), ReadStatus(jid, k)')
      ]_vars

\* C3 witness: the work unit of the second Batch of a Job is in progress, the
\* first Batch is read as `completed` and the second as `triggered`.
C3_Witness ==
    \E l \in Loops :
        /\ pc[l] = "work"
        /\ cur[l][2] = 2
        /\ ReadStatus(cur[l][1], 1) = "completed"
        /\ ReadStatus(cur[l][1], 2) = "triggered"

\* the derivation rule of the overall status, on the statuses of a record
Derived(statuses) ==
    IF \A k \in 1..Len(statuses) : statuses[k] = "completed" THEN "completed"
    ELSE IF \E k \in 1..Len(statuses) : statuses[k] = "triggered"
         THEN "triggered"
         ELSE "yet_to_start"

\* C4: the overall status of every persisted record is the derivation rule
\* applied to the Batch statuses of that record.
C4_RecordStatusIsDerived ==
    \A key \in DOMAIN store :
        store[key].status =
            Derived([k \in 1..Len(store[key].batches) |->
                        store[key].batches[k].status])

Queued(jid) == jid \in QueuedIds(job_queue)

\* another Job of the queue has a (rank, timestamp) pair not greater than
\* that of the queued Job jid
Preceded(jid) ==
    \E i \in 1..Len(job_queue), k \in 1..Len(job_queue) :
        /\ job_queue[i].job.ingestion_id = jid
        /\ k # i
        /\ KeyLeq(job_queue[k].job, job_queue[i].job)

\* C5 as stated: every enqueued Job, a LOW one included, is eventually
\* popped by process_jobs, whatever Jobs keep being ingested, when the loop
\* is scheduled fairly and no write fails.
C5_NoStarvation ==
    \A jid \in 1..MaxJobsLive : Queued(jid) ~> ~Queued(jid)

\* C5, amended: under the same fairness no Job waits forever at the head of
\* the queue: an enqueued Job is eventually popped unless, again and again,
\* another Job with a (rank, timestamp) pair not greater than its own is in
\* the queue with it.  (Nothing ages a waiting Job: while Jobs of higher
\* priority keep being ingested, a LOW Job waits forever.)
C5_PoppedUnlessPreceded ==
    \A jid \in 1..MaxJobsLive : []<>(~Queued(jid) \/ Preceded(jid))

\* C5 witness: a LOW Job was overtaken by a HIGH Job ingested after it, and
\* was popped once that Job was finished.
C5_Witness ==
    \E a \in 1..Len(dispatched), b \in 1..Len(dispatched) :
        /\ a < b
        /\ jobs[dispatched[a].job].priority = "HIGH"
        /\ jobs[dispatched[b].job].priority = "LOW"
        /\ jobs[dispatched[b].job].created_time
               < jobs[dispatched[a].job].created_time
        /\ dispatched[a].how = "ok"

\* ceil(n / 3)
CeilThird(n) == CHOOSE c \in 0..n : 3 * c >= n /\ 3 * c < n + 3

RECURSIVE Concat(_)
Concat(seqs) ==
    IF seqs = << >> THEN << >> ELSE Head(seqs) \o Concat(Tail(seqs))

\* C6: a Job built from n ids has ceil(n/3) Batches of 1 to 3 ids, all but
\* the last of exactly 3, whose id lists concatenated in order are the
\* requested id list; the persisted record holds the same Batches.
C6_BatchesPartitionIds ==
    \A jid \in DOMAIN jobs :
        LET b == jobs[jid].batches
            n == Len(jobs[jid].ids)
        IN /\ Len(b) = CeilThird(n)
           /\ \A k \in 1..Len(b) : Len(b[k].ids) >= 1 /\ Len(b[k].ids) <= 3
           /\ \A k \in 1..(Len(b) - 1) : Len(b[k].ids) = 3
           /\ Concat([k \in 1..Len(b) |-> b[k].ids]) = jobs[jid].ids
           /\ jid \in DOMAIN store =>
                 [k \in 1..Len(store[jid].batches) |-> store[jid].batches[k].ids]
                    = [k \in 1..Len(b) |-> b[k].ids]

\* C6 witness: a Job of 7 ids with Batches of 3, 3 and 1 ids.
C6_Witness ==
    \E jid \in DOMAIN jobs :
        /\ Len(jobs[jid].ids) = 7
        /\ [k \in 1..Len(jobs[jid].batches) |-> Len(jobs[jid].batches[k].ids)]
              = <<3, 3, 1>>

\* the first id of the list outside [1, 10^9 + 7], 0 when there is none
FirstOutside(ids) ==
    IF \E i \in 1..Len(ids) : ids[i] < 1 \/ ids[i] > 1000000007
    THEN ids[CHOOSE i \in 1..Len(ids) :
                /\ ids[i] < 1 \/ ids[i] > 1000000007
                /\ \A k \in 1..(i - 1) : ids[k] >= 1 /\ ids[k] <= 1000000007]
    ELSE 0

HasOutside(ids) == \E i \in 1..Len(ids) : ids[i] < 1 \/ ids[i] > 1000000007

\* an ingestion request has been answered in this step
IngestStep == response'.op = "ingest" /\ response' # response

\* C7: an ingestion request with an id outside [1, 10^9+7], wherever it
\* stands, is answered 400 naming the first such id, and leaves the store, the
\* queue and the Jobs unchanged.
C7_InvalidIdRejected ==
    [][ (IngestStep /\ HasOutside(response'.ids)) =>
            /\ response'.code = 400
            /\ response'.detail = FirstOutside(response'.ids)
            /\ UNCHANGED <<store, job_queue, jobs, returned>>
      ]_vars

\* C7 witness: a request whose second id is 10^9+8 and whose third is 0 was
\* answered 400 naming 10^9+8, while a Job is stored and queued.
C7_Witness ==
    /\ response.op = "ingest"
    /\ response.code = 400
    /\ response.detail = 1000000008
    /\ DOMAIN store # {}
    /\ job_queue # << >>

\* C8: the record of every Job that is still in the queue is read with
\* overall status `yet_to_start` and every Batch `yet_to_start`.
C8_QueuedReadsYetToStart ==
    \A jid \in QueuedIds(job_queue) :
        /\ get_status(jid).code = 200
        /\ get_status(jid).body.status = "yet_to_start"
        /\ \A k \in 1..Len(get_status(jid).body.batches) :
              get_status(jid).body.batches[k].status = "yet_to_start"

\* C9: a status query is answered 404 exactly when no record is stored for
\* the identifier, which is exactly when no successful ingest returned it;
\* otherwise it is answered 200 with the stored record; the query changes
\* neither the store, the queue nor any Batch status.
C9_StatusQuery ==
    [][ (response'.op = "status" /\ response' # response) =>
            /\ response'.code \in {200, 404}
            /\ response'.code = 404 <=> response'.id \notin DOMAIN store
            /\ response'.code = 404 <=> response'.id \notin returned
            /\ response'.code = 200 => response'.body = store[response'.id]
            /\ UNCHANGED <<store, job_queue, jobs>>
      ]_vars

\* C9 witness: an unknown identifier was answered 404 while a record is
\* stored for another one.
C9_Witness ==
    /\ response.op = "status"
    /\ response.code = 404
    /\ DOMAIN store # {}

\* C10: an ingestion whose write of the initial record fails is answered with
\* an error and enqueues nothing, and every Job in the queue has a persisted
\* record under its own key.
C10_QueuedIsPersisted ==
    [][ /\ \A jid \in QueuedIds(job_queue') :
              jid \in DOMAIN store' /\ store'[jid].ingestion_id = jid
        /\ (IngestStep /\ \E p \in Priority : Ingest(response'.ids, p, FALSE)) =>
              /\ response'.code >= 400
              /\ UNCHANGED <<store, job_queue, jobs, returned>>
      ]_vars

\* C10 witness: an ingestion failed on its store write while another Job,
\* with its record, is in the queue.
C10_Witness ==
    /\ response.op = "ingest"
    /\ response.code = 500
    /\ job_queue # << >>

\* the Job popped in this step has a higher priority than the Job dispatched
\* before it and arrived while that Job was in flight
OvertakerPopped ==
    /\ PopStep
    /\ dispatched # << >>
    /\ LET d == dispatched[Len(dispatched)]
           h == dispatched'[Len(dispatched')].job
       IN /\ RankOf(jobs[h].priority) < RankOf(jobs[d.job].priority)
          /\ d.start <= jobs[h].created_time
          /\ jobs[h].created_time < d.end

C12_StatusStepsForward ==
    [][ \A jid \in DOMAIN jobs : \A k \in BatchesOf(jid) :
            /\ StatusStepOk(jobs[jid].batches[k].status,
                            jobs'[jid].batches[k].status)
            /\ jid \in DOMAIN store =>
                  StatusStepOk(store[jid].batches[k].status,
                               store'[jid].batches[k].status)
      ]_vars

\* C12 witness: the first Batch of a Job is completed and the second one
\* triggered, on the Job object and in the record.
C12_Witness ==
    \E jid \in DOMAIN jobs \cap DOMAIN store :
        /\ Len(jobs[jid].batches) = 2
        /\ jobs[jid].batches[1].status = "completed"
        /\ store[jid].batches[1].status = "completed"
        /\ jobs[jid].batches[2].status = "triggered"
        /\ store[jid].batches[2].status = "triggered"

\* the statuses of a list of Batches are those of a sequential run: before a
\* triggered Batch all are completed and after it all are yet_to_start, and a
\* Batch is triggered or completed only when the Batch before it is completed
InListOrder(batches) ==
    \A k \in 1..Len(batches) :
        /\ batches[k].status = "triggered" =>
              /\ \A i \in 1..(k - 1) : batches[i].status = "completed"
              /\ \A i \in (k + 1)..Len(batches) :
                    batches[i].status = "yet_to_start"
        /\ (k > 1 /\ batches[k].status # "yet_to_start") =>
              batches[k - 1].status = "completed"

\* C13: the Batches of a Job are processed in list order and one at a time:
\* for every Job whose processing has not failed, on the Job object and in
\* the record, at most one Batch is triggered, the Batches before it are
\* completed and those after it are yet_to_start, and Batch k+1 is not
\* triggered before Batch k is completed.
C13_BatchesInListOrder ==
    \A jid \in DOMAIN jobs :
        ~DispatchFailed(jid) =>
            /\ InListOrder(jobs[jid].batches)
            /\ jid \in DOMAIN store => InListOrder(store[jid].batches)

\* C13 witness: the work unit of the first Batch of a two-batch Job is in
\* progress: that Batch is triggered and the second one yet_to_start.
C13_Witness ==
    \E l \in Loops :
        /\ pc[l] = "work"
        /\ cur[l][2] = 1
        /\ Len(jobs[cur[l][1]].batches) = 2
        /\ jobs[cur[l][1]].batches[1].status = "triggered"
        /\ jobs[cur[l][1]].batches[2].status = "yet_to_start"

\* the Jobs popped so far, in the order of the pops
PoppedJobs == [i \in 1..Len(dispatched) |-> dispatched[i].job]

NoRepeat(seq) ==
    \A i \in 1..Len(seq), k \in 1..Len(seq) : seq[i] = seq[k] => i = k

\* C14: every Job put in the queue is removed from it at most once: the queue
\* holds no Job twice, a popped Job is not in the queue (again), no Job is
\* popped twice, and a Batch is set to TRIGGERED only when it is
\* yet_to_start, so never a second time; also after an error in the loop.
C14_PoppedAtMostOnce ==
    [][ /\ NoRepeat(PoppedJobs')
        /\ NoRepeat([i \in 1..Len(job_queue') |->
                        job_queue'[i].job.ingestion_id])
        /\ \A i \in 1..Len(dispatched') :
              dispatched'[i].job \notin QueuedIds(job_queue')
        /\ \A l \in Loops :
              (cur'[l] # cur[l] /\ cur'[l][1] # 0) =>
                 jobs[cur'[l][1]].batches[cur'[l][2]].status = "yet_to_start"
      ]_vars

\* C14 witness: the processing of a Job failed after its first Batch was
\* completed, and another Job was popped after the backoff and completed.
C14_Witness ==
    /\ Len(dispatched) = 2
    /\ dispatched[1].how = "error"
    /\ jobs[dispatched[1].job].batches[1].status = "completed"
    /\ dispatched[2].job # dispatched[1].job
    /\ dispatched[2].how = "ok"
    /\ job_queue = << >>

\* the loop is inside `async with processing_lock`, between its throttle
\* check and the end of its iteration
InGuard(l) == pc[l] \in {"throttle", "idle", "work"}

\* a Batch status changes in this step, on a Job object or in a record
StatusChanges ==
    \E jid \in DOMAIN jobs : \E k \in BatchesOf(jid) :
        \/ jobs'[jid].batches[k].status # jobs[jid].batches[k].status
        \/ /\ jid \in DOMAIN store
           /\ store'[jid].batches[k].status # store[jid].batches[k].status

\* while one instance is between its throttle check and the end of its
\* iteration it holds the lock, every pop and every change of a Batch status
\* is a step of that instance, and no Job is popped while another Job is in
\* flight
NoInterleaving ==
    /\ \A l \in DOMAIN pc : InGuard(l)' => processing_lock' = l
    /\ \A l \in DOMAIN pc :
          (InGuard(l) /\ (PopStep \/ StatusChanges)) =>
              \A m \in DOMAIN pc \ {l} :
                  pc'[m] = pc[m] /\ cur'[m] = cur[m] /\ wakeAt'[m] = wakeAt[m]
    /\ (PopStep /\ dispatched # << >>) =>
          dispatched[Len(dispatched)].how # "running"

\* C15 (as claimed): with two instances of process_jobs no two dispatches
\* interleave, a Job that arrives meanwhile does not preempt the Job in
\* flight, and a Job is popped 5 time units or more after the end of the
\* dispatch before it, whichever instance made it and however it ended.
C15_NoInterleavingFloorAlways ==
    [][ /\ NoInterleaving
        /\ (PopStep /\ dispatched # << >>) =>
              now - dispatched[Len(dispatched)].end >= 50 ]_vars

\* C15 (amended): with two instances of process_jobs no two dispatches
\* interleave and a Job that arrives meanwhile does not preempt the Job in
\* flight; a Job is popped 5 time units or more after the end of every
\* dispatch, by either instance, that completed all its Batches.  (After a
\* dispatch that failed the other instance may pop the next Job at once.)
C15_NoInterleavingFloorAfterCompleted ==
    [][ /\ NoInterleaving
        /\ PopStep => \A e \in OkEnds(dispatched) : now - e >= 50 ]_vars

\* C15 witness: one instance has completed a Job and waits for the lock; the
\* other instance took the lock, slept 5 time units and is processing a HIGH
\* Job that arrived while the first Job, a LOW one, was in flight.
C15_Witness ==
    \E l \in DOMAIN pc, m \in DOMAIN pc :
        /\ pc[l] = "work" /\ pc[m] = "lock"
        /\ Len(dispatched) = 2
        /\ dispatched[1].how = "ok"
        /\ cur[l][1] = dispatched[2].job
        /\ jobs[dispatched[1].job].priority = "LOW"
        /\ jobs[dispatched[2].job].priority = "HIGH"
        /\ jobs[dispatched[2].job].created_time > dispatched[1].start
        /\ dispatched[2].start >= dispatched[1].end + 50

\* the dispatch of the Job was cut by the cancellation of the loop
DispatchCancelled(jid) ==
    \E i \in 1..Len(dispatched) :
        dispatched[i].job = jid /\ dispatched[i].how = "cancelled"

\* the record is a whole record of the Job: its identifier, an overall status
\* and every Batch of the Job with its identifier, its ids and a status
CompleteRecord(jid) ==
    /\ DOMAIN store[jid] = {"ingestion_id", "status", "batches"}
    /\ store[jid].ingestion_id = jid
    /\ store[jid].status \in {"yet_to_start", "triggered", "completed"}
    /\ Len(store[jid].batches) = Len(jobs[jid].batches)
    /\ \A k \in BatchesOf(jid) :
          /\ DOMAIN store[jid].batches[k] = {"batch_id", "ids", "status"}
          /\ store[jid].batches[k].batch_id = jobs[jid].batches[k].batch_id
          /\ store[jid].batches[k].ids = jobs[jid].batches[k].ids
          /\ store[jid].batches[k].status
                \in {"yet_to_start", "triggered", "completed"}

\* C17: a cancellation delivered at a suspension point of the loop (throttle
\* wait, idle wait, work unit of a Batch) ends the loop and releases the
\* lock, changing no Job and no record; once the loop has ended no Batch
\* status and no existing record changes any more; every record is a whole
\* record; and the Batch that was in flight stays triggered, on the Job
\* object and in the record.
C17_CancellationEndsLoop ==
    [][ /\ \A l \in Loops :
              (pc[l] \in {"throttle", "idle", "work"} /\ pc'[l] = "done") =>
                  /\ processing_lock' = 0
                  /\ jobs' = jobs /\ store' = store /\ job_queue' = job_queue
        /\ (\A l \in Loops : pc[l] = "done") =>
              /\ \A l \in Loops : pc'[l] = "done"
              /\ processing_lock' = 0
              /\ \A jid \in DOMAIN jobs : jobs'[jid] = jobs[jid]
              /\ \A jid \in DOMAIN store : store'[jid] = store[jid]
        /\ \A jid \in DOMAIN store' : CompleteRecord(jid)'
        /\ \A jid \in DOMAIN jobs' :
              DispatchCancelled(jid)' =>
                  \E k \in 1..Len(jobs'[jid].batches) :
                      /\ jobs'[jid].batches[k].status = "triggered"
                      /\ store'[jid].batches[k].status = "triggered"
      ]_vars

\* C17 witness: the loop was cancelled during the work unit of the second
\* Batch of a Job: the loop has ended, the lock is free, the first Batch is
\* completed and the second one triggered in the record, and a request was
\* accepted after that.
C17_Witness ==
    /\ \A l \in Loops : pc[l] = "done"
    /\ processing_lock = 0
    /\ Len(dispatched) = 1
    /\ dispatched[1].how = "cancelled"
    /\ store[dispatched[1].job].batches[1].status = "completed"
    /\ store[dispatched[1].job].batches[2].status = "triggered"
    /\ job_queue # << >>

\* a dispatch ends with an error in this step
ErrorStep ==
    /\ dispatched' # << >>
    /\ dispatched'[Len(dispatched')].how = "error"
    /\ \/ Len(dispatched') > Len(dispatched)
       \/ dispatched[Len(dispatched)].how = "running"

\* C16: an error raised while a Job is processed (a failed store write) does
\* not end the scheduler loop: the error is caught, the lock is released and
\* the loop sleeps the backoff; the loop never ends without a cancellation,
\* and every Job that is or later becomes queued is popped eventually.
C16_ErrorNeverEndsLoop ==
    /\ [][ ErrorStep =>
             /\ processing_lock' = 0
             /\ \A l \in Loops : pc[l] # pc'[l] => pc'[l] = "backoff" ]_vars
    /\ [](\A l \in Loops : pc[l] # "done")
    /\ \A jid \in 1..MaxJobsFaulty : Queued(jid) ~> ~Queued(jid)

\* C16 witness: the processing of a Job failed when its first Batch was
\* triggered, and after the backoff the loop popped the next Job and is
\* processing it.
C16_Witness ==
    /\ Len(dispatched) = 2
    /\ dispatched[1].how = "error"
    /\ jobs[dispatched[1].job].batches[1].status = "triggered"
    /\ dispatched[2].how = "running"
    /\ \E l \in Loops : pc[l] = "work" /\ cur[l][1] = dispatched[2].job

\* the Job was dispatched and every one of its Batches is completed in its
\* record
Drained(jid) ==
    /\ \E i \in 1..Len(dispatched) : dispatched[i].job = jid
    /\ jid \in DOMAIN store
    /\ \A k \in 1..Len(store[jid].batches) :
          store[jid].batches[k].status = "completed"

\* C18: when finitely many Jobs are ingested, no write fails and the loop is
\* not cancelled, then under fairness of the loop every ingested Job is
\* dispatched eventually and every one of its Batches is eventually
\* completed in the record, for good, and the queue ends empty.
C18_EveryJobCompletes ==
    /\ \A jid \in 1..MaxJobsDrain : (jid \in DOMAIN jobs) ~> Drained(jid)
    /\ [][ \A jid \in DOMAIN jobs : Drained(jid) => Drained(jid)' ]_vars
    /\ <>[](job_queue = << >>)

\* C18 witness: two Jobs were ingested, an empty one and one of two Batches;
\* both were dispatched, every Batch is completed in the records and the
\* queue is empty.
C18_Witness ==
    /\ Cardinality(DOMAIN jobs) = 2
    /\ \A jid \in DOMAIN jobs : Drained(jid)
    /\ \E jid \in DOMAIN jobs : Len(jobs[jid].batches) = 2
    /\ \E jid \in DOMAIN jobs : Len(jobs[jid].batches) = 0
    /\ Len(dispatched) = 2
    /\ job_queue = << >>

\* the Job is out of the queue and is not popped again, and its Job object and
\* its record do not change in this step
Abandoned(jid) ==
    /\ jid \notin QueuedIds(job_queue')
    /\ NoRepeat(PoppedJobs')
    /\ jobs'[jid] = jobs[jid]
    /\ store'[jid] = store[jid]

\* C19 (as claimed): a Job whose processing raised an error is never put back
\* in the queue, never dispatched again and never changes again; the Batch
\* that failed is triggered and the later ones are yet_to_start, so the Job
\* does not reach completed.
C19_FailedStaysTriggered ==
    [][ \A jid \in DOMAIN jobs :
          /\ DispatchFailed(jid) => Abandoned(jid)
          /\ DispatchFailed(jid)' =>
                /\ get_overall_status(jobs'[jid].batches) # "completed"
                /\ \E k \in BatchesOf(jid) :
                      /\ jobs'[jid].batches[k].status = "triggered"
                      /\ \A i \in (k + 1)..Len(jobs[jid].batches) :
                            jobs'[jid].batches[i].status = "yet_to_start"
      ]_vars

\* the Job failed at its k-th Batch: the write of a status of that Batch
\* failed, so the record is one step behind the Job object for that Batch
\* and equal to it for the others
FailedAt(jid, k) ==
    /\ \A i \in 1..(k - 1) :
          /\ jobs[jid].batches[i].status = "completed"
          /\ store[jid].batches[i].status = "completed"
    /\ \A i \in (k + 1)..Len(jobs[jid].batches) :
          /\ jobs[jid].batches[i].status = "yet_to_start"
          /\ store[jid].batches[i].status = "yet_to_start"
    /\ \/ /\ jobs[jid].batches[k].status = "triggered"
          /\ store[jid].batches[k].status = "yet_to_start"
       \/ /\ jobs[jid].batches[k].status = "completed"
          /\ store[jid].batches[k].status = "triggered"

\* a Job whose dispatch failed has failed at one of its Batches
FailedSomewhere(jid) ==
    DispatchFailed(jid) => \E k \in BatchesOf(jid) : FailedAt(jid, k)

\* C19 (amended): a Job whose processing raised an error is never put back in
\* the queue, never dispatched again and never changes again, on the Job
\* object and in the record.  The Batch whose write failed is triggered on
\* the object and yet_to_start in the record, or completed on the object and
\* triggered in the record; the earlier Batches are completed and the later
\* ones yet_to_start.  So the record never has all its Batches completed.
C19_FailedStaysAsAtError ==
    [][ \A jid \in DOMAIN jobs :
          /\ DispatchFailed(jid) => Abandoned(jid)
          /\ FailedSomewhere(jid)'
      ]_vars

\* C19 witness: the write of `completed` for the last Batch of a Job failed:
\* every Batch is completed on the Job object while the record still reads
\* triggered for the last one; the loop has gone on and completed another Job.
C19_Witness ==
    \E jid \in DOMAIN jobs :
        /\ DispatchFailed(jid)
        /\ Len(jobs[jid].batches) = 2
        /\ FailedAt(jid, 2)
        /\ get_overall_status(jobs[jid].batches) = "completed"
        /\ store[jid].batches[2].status = "triggered"
        /\ Len(dispatched) = 2
        /\ dispatched[2].how = "ok"

\* a dispatch ends in this step with all the Batches of its Job completed
CompletedStep ==
    /\ dispatched' # << >>
    /\ dispatched'[Len(dispatched')].how = "ok"
    /\ dispatched'[Len(dispatched')].end = now
    /\ \/ Len(dispatched') > Len(dispatched)
       \/ dispatched[Len(dispatched)].how = "running"
    /\ \A k \in 1..Len(jobs'[dispatched'[Len(dispatched')].job].batches) :
          jobs'[dispatched'[Len(dispatched')].job].batches[k].status
              = "completed"

\* C20: last_processed_time changes only in a step that finishes all the
\* Batches of a popped Job, and then it is the time of that step; an
\* iteration that finds the queue empty, a dispatch that fails, an ingestion
\* and a status query leave it unchanged; and a throttle wait ends 5 time
\* units after last_processed_time, that is, after the last dispatch that
\* completed.
C20_StampOnlyOnCompletion ==
    [][ /\ last_processed_time' # last_processed_time =>
              CompletedStep /\ last_processed_time' = now
        /\ ErrorStep => last_processed_time' = last_processed_time
        /\ \A l \in Loops :
              /\ (pc'[l] = "idle" /\ <<pc[l], wakeAt[l]>> # <<pc'[l], wakeAt'[l]>>)
                     => last_processed_time' = last_processed_time
              /\ (pc'[l] = "throttle" /\ pc[l] # "throttle") =>
                     wakeAt'[l] = last_processed_time' + 50
        /\ response' # response => last_processed_time' = last_processed_time
      ]_vars

\* C20 witness: the first dispatch failed and the next Job was popped less
\* than 5 time units later, last_processed_time still having its initial
\* value; a status query was answered meanwhile.
C20_Witness ==
    /\ Len(dispatched) = 2
    /\ dispatched[1].how = "error"
    /\ dispatched[2].start < dispatched[1].end + 50
    /\ last_processed_time = 0
    /\ response.op = "status"

====
